---------------------------- MODULE Spec2Model ----------------------------
(***************************************************************************)
(* Model of genetic_data_lake_project/etl_load_csvs.py: the chunked        *)
(* CSV-to-table loader (load_csv_to_db) and the main loop that drives it   *)
(* over files_and_tables.  pandas.read_csv(chunksize=...) and              *)
(* DataFrame.to_sql(if_exists=...) are modelled by what they do to the     *)
(* reader's cursor and to the destination table.                           *)
(***************************************************************************)
EXTENDS Integers, Sequences, FiniteSets, TLC

(***************************************************************************)
(* Bounds of the model.  ChunkSize stands for chunksize=100000 of          *)
(* pd.read_csv, scaled down so that several chunks fit in MaxRows rows.    *)
(***************************************************************************)
ChunkSize == 2
MaxRows == 5
MaxRuns == 2

VARIABLES files, flaky, db, run, pc, idx, reader, chunk_number,
          table_created, result, attempts, handed, history

vars == <<files, flaky, db, run, pc, idx, reader, chunk_number,
          table_created, result, attempts, handed, history>>

(***************************************************************************)
(* files_and_tables, in insertion order (the order .items() iterates).     *)
(***************************************************************************)
files_and_tables ==
    << "individuals", "relationships", "marriages", "snp_definitions", "snps",
       "indel_definitions", "indels", "structural_variants",
       "health_phenotypes", "lifestyle" >>

Tables == { files_and_tables[i] : i \in 1..Len(files_and_tables) }

AppendOnly == Tables \ {"relationships"}

(***************************************************************************)
(* Values of a cell.  NaN is pandas' missing-value sentinel, None the      *)
(* explicit null the loader substitutes for it, NULL what the sink stores. *)
(***************************************************************************)
NaN == "NaN"
None == "None"
NULL == "NULL"
Absent ==
    [ exists |-> FALSE,
      creator |-> [run |-> 0, chunk |-> 0, method |-> "none"],
      rows |-> <<>> ]

ParentCols == <<"father_id", "mother_id">>

(* The raw text of the CSV: row i of a file of the data lake.  The         *)
(* relationships rows cover a missing father ("" and "NA"), a missing      *)
(* mother, both and neither.                                               *)
RawRow(t, i) ==
    IF t = "relationships"
    THEN [ individual_id |-> ToString(i),
           father_id |-> CASE i \in {1, 5} -> ""
                           [] i = 3 -> "NA"
                           [] OTHER -> "F",
           mother_id |-> IF i \in {2, 3} THEN "" ELSE "M" ]
    ELSE [ id |-> ToString(i) ]

(* read_csv's default na_values: an empty field or "NA" parses to NaN.     *)
ParseCell(raw) == IF raw \in {"", "NA"} THEN NaN ELSE raw

ParseRow(t, i) ==
    IF t = "relationships"
    THEN [ individual_id |-> RawRow(t, i).individual_id,
           father_id |-> ParseCell(RawRow(t, i).father_id),
           mother_id |-> ParseCell(RawRow(t, i).mother_id) ]
    ELSE RawRow(t, i)

Columns(t) ==
    IF t = "relationships" THEN {"individual_id", "father_id", "mother_id"}
    ELSE {"id"}

(***************************************************************************)
(* A source file: missing (read_csv raises FileNotFoundError), empty (no   *)
(* header: read_csv raises EmptyDataError), or a CSV with a header and     *)
(* nrows data rows, of which row badRow (0: none) is malformed so that the *)
(* reader raises when it tokenizes the chunk holding it.                   *)
(***************************************************************************)
Sources ==
    { [kind |-> "missing", nrows |-> 0, badRow |-> 0],
      [kind |-> "empty", nrows |-> 0, badRow |-> 0] }
    \cup { f \in [kind : {"csv"}, nrows : 0..MaxRows, badRow : 0..MaxRows] :
             f.badRow <= f.nrows }

Plain == [kind |-> "csv", nrows |-> 1, badRow |-> 0]

(***************************************************************************)
(* The data lakes the model is run on.  One dataset (or none) is the       *)
(* flaky one: its file is any of Sources and its chunk writes may fail.    *)
(* The other files all have the same shape, one of Backgrounds, and their  *)
(* writes succeed.                                                         *)
(***************************************************************************)
Backgrounds ==
    { Plain,
      [kind |-> "missing", nrows |-> 0, badRow |-> 0],
      [kind |-> "csv", nrows |-> 0, badRow |-> 0],
      [kind |-> "csv", nrows |-> ChunkSize + 1, badRow |-> ChunkSize + 1] }

Min(a, b) == IF a < b THEN a ELSE b

(***************************************************************************)
(* The chunk iterator of pd.read_csv(file_path, chunksize=...).  pos is    *)
(* the number of rows consumed, first whether no chunk was read yet.       *)
(* A header-only file yields one chunk of zero rows on the first read      *)
(* (pandas returns the empty frame built from the header) and stops on     *)
(* the second.                                                             *)
(***************************************************************************)
(* Variant: a header-only file yields no chunk at all.                     *)
ReaderExhaustedNoHeaderFrame(f, rd) == rd.pos >= f.nrows

ReaderExhausted(f, rd) == rd.pos >= f.nrows /\ ~(rd.first /\ f.nrows = 0)

(* Variant: the last chunk is not cut at the end of the file.              *)
ChunkEndUnclamped(f, rd) == rd.pos + ChunkSize

ChunkEnd(f, rd) == Min(rd.pos + ChunkSize, f.nrows)

(* Variant: a malformed row is read like any other.                        *)
ReaderNeverRaises(f, rd) == FALSE

ReaderRaises(f, rd) ==
    /\ ~ReaderExhausted(f, rd)
    /\ f.badRow \in (rd.pos + 1)..ChunkEnd(f, rd)

(* The iterator after it produced a chunk.                                 *)
Advance(f, rd) == [pos |-> ChunkEnd(f, rd), first |-> FALSE]

(* Variant: the handler leaves the loop (break) instead of continuing.     *)
AfterErrorBreak(f, rd) == [pos |-> f.nrows, first |-> FALSE]

(* Lines 68-71: the handler prints the error and continues with the next   *)
(* chunk; the failed chunk is not read again.                              *)
AfterError(f, rd) == Advance(f, rd)

ReadChunk(t, f, rd) ==
    [ cols |-> Columns(t),
      rows |-> [ j \in 1..(ChunkEnd(f, rd) - rd.pos) |-> ParseRow(t, rd.pos + j) ] ]

(***************************************************************************)
(* Lines 53-57: chunk[col] = chunk[col].where(chunk[col].notna(), None)    *)
(* for father_id and mother_id of relationships, when the column exists.   *)
(***************************************************************************)
WhereNotNa(v) == IF v = NaN THEN None ELSE v

NormalizeRow(cols, r) ==
    [ c \in DOMAIN r |->
        IF c \in { ParentCols[i] : i \in 1..Len(ParentCols) } /\ c \in cols
        THEN WhereNotNa(r[c]) ELSE r[c] ]

(* Variant: only the chunk that replaces the table is normalized.          *)
NormalizeFirstChunkOnly(t, created, frame) ==
    IF t = "relationships" /\ ~created
    THEN [ frame EXCEPT !.rows = [ j \in DOMAIN frame.rows |->
                                     NormalizeRow(frame.cols, frame.rows[j]) ] ]
    ELSE frame

Normalize(t, created, frame) ==
    IF t = "relationships"
    THEN [ frame EXCEPT !.rows = [ j \in DOMAIN frame.rows |->
                                     NormalizeRow(frame.cols, frame.rows[j]) ] ]
    ELSE frame

(* Variants: every chunk is appended; every table is replaced by its       *)
(* first chunk.                                                            *)
MethodAlwaysAppend(t, created) == "append"

MethodReplaceEvery(t, created) == IF ~created THEN "replace" ELSE "append"

(* Lines 58-65: the if_exists method of a chunk.                           *)
Method(t, created) ==
    IF t = "relationships"
    THEN IF ~created THEN "replace" ELSE "append"
    ELSE "append"

(* Variant: the flag is never set.                                         *)
CreatedAfterUnset(t, created) == created

(* Line 61: table_created after the method was chosen, before to_sql.      *)
CreatedAfter(t, created) == IF t = "relationships" THEN TRUE ELSE created

(***************************************************************************)
(* chunk.to_sql(table_name, engine, if_exists=method, index=False).        *)
(* The sink stores NaN and None alike as NULL.  A table remembers the      *)
(* chunk whose frame created it (that frame fixes its columns).            *)
(***************************************************************************)
SinkCell(v) == IF v \in {NaN, None} THEN NULL ELSE v

SinkRows(frame, r) ==
    [ j \in DOMAIN frame.rows |->
        [ run |-> r,
          data |-> [ c \in DOMAIN frame.rows[j] |-> SinkCell(frame.rows[j][c]) ] ] ]

NewTable(t, method, r, k, rows) ==
    [ exists |-> TRUE,
      creator |-> [run |-> r, chunk |-> k, method |-> method],
      rows |-> rows ]

ToSql(tbl, t, frame, method, r, k) ==
    IF method = "replace" \/ tbl = Absent
    THEN NewTable(t, method, r, k, SinkRows(frame, r))
    ELSE [ tbl EXCEPT !.rows = @ \o SinkRows(frame, r) ]

(***************************************************************************)
(* What a to_sql that raises leaves behind.  The write either never        *)
(* reached the table or was rolled back ("untouched"); or, where the DDL   *)
(* is committed before the insert, the table was dropped and not recreated *)
(* ("dropped"), or (re)created and left without the chunk's rows           *)
(* ("emptied").                                                            *)
(***************************************************************************)
FailureModes(tbl, method) ==
    {"untouched"}
    \cup (IF method = "replace" /\ tbl # Absent THEN {"dropped"} ELSE {})
    \cup (IF method = "replace" \/ tbl = Absent THEN {"emptied"} ELSE {})

ToSqlRaises(tbl, t, method, r, k, how) ==
    CASE how = "untouched" -> tbl
      [] how = "dropped" -> Absent
      [] how = "emptied" -> NewTable(t, method, r, k, <<>>)

(***************************************************************************)
(* State.                                                                  *)
(***************************************************************************)
NoResult == [status |-> "pending", attempted |-> 0, ok |-> {}, errors |-> <<>>]

NoReader == [pos |-> 0, first |-> TRUE]

NoHanded ==
    [ table |-> "none", method |-> "none", chunk |-> 0,
      frame |-> [cols |-> {}, rows |-> <<>>] ]

Current == files_and_tables[idx]

Init ==
    /\ flaky \in {{}} \cup { {t} : t \in Tables }
    /\ files \in { [t \in Tables |-> IF t \in flaky THEN g[t] ELSE b] :
                      g \in [flaky -> Sources], b \in Backgrounds }
    /\ db = [t \in Tables |-> Absent]
    /\ run = 1
    /\ pc = "main"
    /\ idx = 1
    /\ reader = NoReader
    /\ chunk_number = 0
    /\ table_created = FALSE
    /\ result = [t \in Tables |-> NoResult]
    /\ attempts = <<>>
    /\ handed = NoHanded
    /\ history = <<>>

(* Variant: a critical error ends the main loop.                           *)
AfterDatasetAbort(status, i) ==
    IF status = "critical" THEN Len(files_and_tables) + 1 ELSE i + 1

(* Lines 75-85: whatever a dataset ended with (line 72, the warning of     *)
(* line 81, the critical error of line 83), the for loop goes on to the    *)
(* next entry.                                                             *)
AfterDataset(status, i) == i + 1

(* Leaving load_csv_to_db for the next entry of the main loop.             *)
Leave(t, status) ==
    /\ result' = [result EXCEPT ![t].status = status]
    /\ idx' = AfterDataset(status, idx)
    /\ pc' = "main"
    /\ reader' = NoReader
    /\ chunk_number' = 0
    /\ table_created' = FALSE

(* Line 79, 39/44: read_csv raises FileNotFoundError; line 82-85.          *)
OpenMissing ==
    /\ pc = "main" /\ idx <= Len(files_and_tables)
    /\ files[Current].kind = "missing"
    /\ Leave(Current, "critical")
    /\ attempts' = Append(attempts, Current)
    /\ UNCHANGED <<files, flaky, db, run, handed, history>>

(* Line 79, 39/44: read_csv raises EmptyDataError; line 80-81.             *)
OpenEmpty ==
    /\ pc = "main" /\ idx <= Len(files_and_tables)
    /\ files[Current].kind = "empty"
    /\ Leave(Current, "skipped")
    /\ attempts' = Append(attempts, Current)
    /\ UNCHANGED <<files, flaky, db, run, handed, history>>

(* Lines 33-48: the reader is open, the loop is about to start.            *)
OpenOk ==
    /\ pc = "main" /\ idx <= Len(files_and_tables)
    /\ files[Current].kind = "csv"
    /\ pc' = "loop"
    /\ reader' = NoReader
    /\ chunk_number' = 0
    /\ table_created' = FALSE
    /\ result' = [result EXCEPT ![Current].status = "reading"]
    /\ attempts' = Append(attempts, Current)
    /\ UNCHANGED <<files, flaky, db, run, idx, handed, history>>

(* Line 50: the reader raises while producing the next chunk; the          *)
(* exception leaves load_csv_to_db and is caught at line 82.               *)
ReaderFault ==
    /\ pc = "loop"
    /\ ReaderRaises(files[Current], reader)
    /\ Leave(Current, "critical")
    /\ UNCHANGED <<files, flaky, db, run, attempts, handed, history>>

(* Lines 50-67: one iteration of the loop whose to_sql returns.            *)
ChunkLoaded ==
    /\ pc = "loop"
    /\ ~ReaderExhausted(files[Current], reader)
    /\ ~ReaderRaises(files[Current], reader)
    /\ LET t == Current
           k == chunk_number + 1
           frame == Normalize(t, table_created, ReadChunk(t, files[t], reader))
           method == Method(t, table_created)
       IN /\ chunk_number' = k
          /\ reader' = Advance(files[t], reader)
          /\ table_created' = CreatedAfter(t, table_created)
          /\ handed' = [table |-> t, method |-> method, chunk |-> k, frame |-> frame]
          /\ db' = [db EXCEPT ![t] = ToSql(@, t, frame, method, run, k)]
          /\ result' = [result EXCEPT ![t].attempted = @ + 1,
                                      ![t].ok = @ \cup {k}]
    /\ UNCHANGED <<files, flaky, run, pc, idx, attempts, history>>

(* Lines 50-71: one iteration of the loop whose to_sql raises; the         *)
(* exception is caught, printed with the chunk number and the table name,  *)
(* and the loop continues.                                                 *)
ChunkError ==
    /\ pc = "loop"
    /\ Current \in flaky
    /\ ~ReaderExhausted(files[Current], reader)
    /\ ~ReaderRaises(files[Current], reader)
    /\ LET t == Current
           k == chunk_number + 1
           frame == Normalize(t, table_created, ReadChunk(t, files[t], reader))
           method == Method(t, table_created)
       IN /\ chunk_number' = k
          /\ reader' = AfterError(files[t], reader)
          /\ table_created' = CreatedAfter(t, table_created)
          /\ handed' = [table |-> t, method |-> method, chunk |-> k, frame |-> frame]
          /\ \E how \in FailureModes(db[t], method) :
                db' = [db EXCEPT ![t] = ToSqlRaises(@, t, method, run, k, how)]
          /\ result' = [result EXCEPT ![t].attempted = @ + 1,
                                      ![t].errors = Append(@, <<k, t>>)]
    /\ UNCHANGED <<files, flaky, run, pc, idx, attempts, history>>

(* Line 72: the reader is exhausted, "Finished loading".                   *)
Finished ==
    /\ pc = "loop"
    /\ ReaderExhausted(files[Current], reader)
    /\ Leave(Current, "done")
    /\ UNCHANGED <<files, flaky, db, run, attempts, handed, history>>

(* Line 86: "ETL complete!".  history keeps the tables and the results of  *)
(* each completed run.                                                     *)
EtlComplete ==
    /\ pc = "main" /\ idx > Len(files_and_tables)
    /\ pc' = "complete"
    /\ history' = Append(history, [db |-> db, result |-> result])
    /\ UNCHANGED <<files, flaky, db, run, idx, reader, chunk_number,
                   table_created, result, attempts, handed>>

(* The script is run again on the same data lake and the same database.    *)
Rerun ==
    /\ pc = "complete" /\ run < MaxRuns
    /\ run' = run + 1
    /\ pc' = "main"
    /\ idx' = 1
    /\ reader' = NoReader
    /\ chunk_number' = 0
    /\ table_created' = FALSE
    /\ result' = [t \in Tables |-> NoResult]
    /\ attempts' = <<>>
    /\ handed' = NoHanded
    /\ UNCHANGED <<files, flaky, db, history>>

Next ==
    \/ OpenMissing
    \/ OpenEmpty
    \/ OpenOk
    \/ ReaderFault
    \/ ChunkLoaded
    \/ ChunkError
    \/ Finished
    \/ EtlComplete
    \/ Rerun

Spec == Init /\ [][Next]_vars

FairSpec == Spec /\ WF_vars(Next)


(***************************************************************************)
(* Vocabulary of the properties.                                           *)
(***************************************************************************)
Rel == "relationships"

Ceil(n, c) == (n + c - 1) \div c

IsPrefix(a, b) == Len(a) <= Len(b) /\ SubSeq(b, 1, Len(a)) = a

Left(t) == result[t].status \in {"done", "skipped", "critical"}

Pos(t) == CHOOSE i \in 1..Len(files_and_tables) : files_and_tables[i] = t

IdOf(t, row) == IF t = Rel THEN row.individual_id ELSE row.id

DataOf(tbl) == [ j \in DOMAIN tbl.rows |-> tbl.rows[j].data ]

IdsOf(t, tbl) == [ j \in DOMAIN tbl.rows |-> IdOf(t, tbl.rows[j].data) ]

(* The file rows that make up chunk k of a file of n rows.                 *)
ChunkRowIds(k, n) ==
    ((k - 1) * ChunkSize + 1) .. (IF k * ChunkSize < n THEN k * ChunkSize ELSE n)

(* Chunk k of table t, written in this run, is in the table.               *)
ChunkPresent(t, k) ==
    \A i \in ChunkRowIds(k, files[t].nrows) :
        \E j \in DOMAIN db[t].rows :
            /\ db[t].rows[j].run = run
            /\ IdOf(t, db[t].rows[j].data) = ToString(i)

FailedChunks(t) == { result[t].errors[j][1] : j \in DOMAIN result[t].errors }

NoWriteErrors(t) == \A i \in DOMAIN history : history[i].result[t].errors = <<>>

EmptySource(f) == f.kind = "empty" \/ (f.kind = "csv" /\ f.nrows = 0)

(***************************************************************************)
(* C1.  After a completed run in which at least one chunk of               *)
(* relationships was written successfully, the table holds only rows       *)
(* written by that run, whatever chunks failed, the first included.        *)
(***************************************************************************)
C1_ReplaceLeavesOnlyThisRun ==
    (pc = "complete" /\ result[Rel].ok # {})
        => \A j \in DOMAIN db[Rel].rows : db[Rel].rows[j].run = run

(***************************************************************************)
(* C2.  With every chunk write of relationships succeeding, each rerun on  *)
(* the unchanged source leaves the table with the same rows, in the same   *)
(* order, as the first run did.                                            *)
(***************************************************************************)
C2_RerunIdempotent ==
    (pc = "complete" /\ NoWriteErrors(Rel))
        => \A i \in DOMAIN history :
              /\ history[i].db[Rel].exists = history[1].db[Rel].exists
              /\ DataOf(history[i].db[Rel]) = DataOf(history[1].db[Rel])

C2_Witness ==
    /\ pc = "complete" /\ run = 2 /\ NoWriteErrors(Rel)
    /\ result[Rel].status = "done"
    /\ Len(db[Rel].rows) >= 3

(***************************************************************************)
(* C3.  A failed chunk write is logged with its chunk number and table,    *)
(* is not retried, does not stop the other chunks of the dataset from      *)
(* being attempted, leaves the successfully written chunks in the table,   *)
(* and the dataset ends done; one failure out of m leaves m-1 written.     *)
(***************************************************************************)
C3_ChunkFaultIsolation ==
    \A t \in Tables :
        LET r == result[t]
            f == files[t]
            m == IF f.nrows = 0 THEN 1 ELSE Ceil(f.nrows, ChunkSize)
        IN /\ \A j \in DOMAIN r.errors : r.errors[j][2] = t
           /\ Cardinality(FailedChunks(t)) = Len(r.errors)
           /\ FailedChunks(t) \cap r.ok = {}
           /\ FailedChunks(t) \cup r.ok = 1..r.attempted
           /\ \A k \in r.ok : ChunkPresent(t, k)
           /\ (r.errors # <<>> /\ f.badRow = 0 /\ Left(t))
                 => (r.status = "done" /\ r.attempted = m)
           /\ (Len(r.errors) = 1 /\ r.status = "done")
                 => Cardinality(r.ok) = m - 1

C3_Witness ==
    \E t \in Tables :
        /\ result[t].status = "done"
        /\ result[t].attempted = 3
        /\ result[t].errors = << <<2, t>> >>
        /\ result[t].ok = {1, 3}

(***************************************************************************)
(* C4.  Every run attempts the entries of files_and_tables once each, in   *)
(* registry order, whatever faults occur, and reaches "ETL complete!".     *)
(***************************************************************************)
C4_RunAlwaysCompletes ==
    /\ [](/\ IsPrefix(attempts, files_and_tables)
          /\ pc = "complete" =>
                (attempts = files_and_tables /\ \A t \in Tables : Left(t)))
    /\ ((pc = "main" /\ idx = 1) ~> (pc = "complete"))

C4_Witness ==
    /\ pc = "complete"
    /\ \E i \in 1..(Len(files_and_tables) - 1) :
          /\ result[files_and_tables[i]].status = "critical"
          /\ result[files_and_tables[i + 1]].status = "done"

(***************************************************************************)
(* C5 as stated.  An empty source (header only, or truly empty) makes no   *)
(* chunk write attempt and ends as a success or a warning.                 *)
(***************************************************************************)
C5_EmptySourceZeroAttempts ==
    \A t \in Tables :
        (EmptySource(files[t]) /\ Left(t))
            => (result[t].attempted = 0 /\ result[t].status \in {"done", "skipped"})

(***************************************************************************)
(* C5 amended.  A truly empty file makes no write attempt and ends with    *)
(* the warning; a header-only file makes exactly one write attempt, of a   *)
(* chunk of zero rows, and ends done.  Neither ends as the critical        *)
(* failure, and the main loop goes on to the next entry.                   *)
(***************************************************************************)
C5_EmptySourceRecoverable ==
    \A t \in Tables :
        LET r == result[t]
            f == files[t]
        IN /\ (f.kind = "empty" /\ Left(t))
                 => (r.status = "skipped" /\ r.attempted = 0)
           /\ (f.kind = "csv" /\ f.nrows = 0 /\ Left(t))
                 => /\ r.status = "done"
                    /\ r.attempted = 1
                    /\ \A j \in DOMAIN db[t].rows : db[t].rows[j].run # run
           /\ (EmptySource(f) /\ Left(t)) => idx > Pos(t)
           /\ (EmptySource(f) /\ pc = "complete") => \A u \in Tables : Left(u)

C5_Witness ==
    /\ pc = "complete"
    /\ \E t \in Tables :
          /\ files[t].kind = "csv" /\ files[t].nrows = 0
          /\ result[t].status = "done" /\ result[t].attempted = 1
          /\ result[t].ok = {1}

(***************************************************************************)
(* C6.  An append-only table never loses rows, and loading the same        *)
(* source again with every write succeeding adds the same number of rows   *)
(* again: after two runs the row count is twice that of one run.           *)
(***************************************************************************)
C6_AppendAdditive ==
    \A t \in AppendOnly :
        /\ \A i \in DOMAIN history : IsPrefix(history[i].db[t].rows, db[t].rows)
        /\ (pc = "complete" /\ NoWriteErrors(t))
              => Len(db[t].rows) = run * Len(history[1].db[t].rows)

C6_Witness ==
    /\ pc = "complete" /\ run = 2
    /\ \E t \in AppendOnly :
          /\ NoWriteErrors(t)
          /\ Len(history[1].db[t].rows) = 3
          /\ Len(db[t].rows) = 6

(***************************************************************************)
(* C7.  Every chunk of relationships handed to the writer, the first and   *)
(* the later ones alike, has None where father_id or mother_id was         *)
(* missing in the file, and the table never holds a missing-value          *)
(* sentinel or an empty string in those columns.                           *)
(***************************************************************************)
C7_NullNormalized ==
    /\ handed.table = Rel =>
          \A j \in DOMAIN handed.frame.rows :
              \A n \in DOMAIN ParentCols :
                  LET c == ParentCols[n]
                      raw == RawRow(Rel, (handed.chunk - 1) * ChunkSize + j)[c]
                      v == handed.frame.rows[j][c]
                  IN /\ v \notin {NaN, "", "NA"}
                     /\ v = (IF raw \in {"", "NA"} THEN None ELSE raw)
    /\ \A j \in DOMAIN db[Rel].rows :
          \A n \in DOMAIN ParentCols :
              db[Rel].rows[j].data[ParentCols[n]] \notin {NaN, "", "NA"}

C7_Witness ==
    /\ handed.table = Rel /\ handed.method = "append"
    /\ handed.chunk \in result[Rel].ok
    /\ \E j \in DOMAIN handed.frame.rows :
          /\ handed.frame.rows[j].father_id = None
          /\ handed.frame.rows[j].mother_id = None
    /\ \E j \in DOMAIN db[Rel].rows :
          /\ db[Rel].rows[j].data.father_id = NULL
          /\ db[Rel].rows[j].run = run

(***************************************************************************)
(* C8 as stated.  A dataset of N rows is read as exactly ceil(N/C)         *)
(* chunks.                                                                 *)
(***************************************************************************)
C8_CeilChunks ==
    \A t \in Tables :
        (files[t].kind = "csv" /\ files[t].badRow = 0 /\ result[t].status = "done")
            => result[t].attempted = Ceil(files[t].nrows, ChunkSize)

(***************************************************************************)
(* C8 amended.  A dataset of N >= 1 rows is read as exactly ceil(N/C)      *)
(* chunks and a header-only one (N = 0) as one chunk of zero rows; each    *)
(* chunk has at most C rows and is handed to the writer in file order,     *)
(* holding the next rows of the file in their order; with every write      *)
(* succeeding the replaced table holds the N rows of the file in order.    *)
(***************************************************************************)
C8_ChunkingLossless ==
    /\ \A t \in Tables :
          (files[t].kind = "csv" /\ files[t].badRow = 0 /\ result[t].status = "done")
              => result[t].attempted =
                    (IF files[t].nrows = 0 THEN 1 ELSE Ceil(files[t].nrows, ChunkSize))
    /\ handed.table # "none" =>
          LET n == files[handed.table].nrows
              k == handed.chunk
              rows == handed.frame.rows
          IN /\ Len(rows) <= ChunkSize
             /\ Len(rows) = Cardinality(ChunkRowIds(k, n))
             /\ \A j \in DOMAIN rows :
                   IdOf(handed.table, rows[j]) = ToString((k - 1) * ChunkSize + j)
             /\ (pc = "loop" /\ chunk_number > 0) => k = chunk_number
    /\ (files[Rel].kind = "csv" /\ files[Rel].badRow = 0
          /\ result[Rel].status = "done" /\ result[Rel].errors = <<>>)
          => /\ IdsOf(Rel, db[Rel]) = [ i \in 1..files[Rel].nrows |-> ToString(i) ]
             /\ \A j \in DOMAIN db[Rel].rows : db[Rel].rows[j].run = run

C8_Witness ==
    /\ files[Rel].nrows = 5 /\ files[Rel].badRow = 0
    /\ result[Rel].status = "done" /\ result[Rel].attempted = 3
    /\ result[Rel].errors = <<>>
    /\ Len(db[Rel].rows) = 5

(***************************************************************************)
(* C9.  A dataset ends as the critical failure exactly when its source     *)
(* cannot be opened or its reader raises, never because a chunk write      *)
(* failed; a reader fault leaves the remaining chunks unattempted and the  *)
(* chunks already written in the table, and the main loop goes on.         *)
(***************************************************************************)
C9_CriticalOnlyFromReader ==
    \A t \in Tables :
        LET r == result[t]
            f == files[t]
        IN /\ r.status = "critical"
                 => (f.kind = "missing" \/ (f.kind = "csv" /\ f.badRow > 0))
           /\ (f.kind = "missing" /\ Left(t))
                 => (r.status = "critical" /\ r.attempted = 0)
           /\ (f.kind = "csv" /\ f.badRow > 0 /\ Left(t))
                 => /\ r.status = "critical"
                    /\ r.attempted = (f.badRow - 1) \div ChunkSize
                    /\ \A k \in r.ok : ChunkPresent(t, k)
           /\ (r.status = "critical") => idx > Pos(t)
           /\ (r.status = "critical" /\ pc = "complete") => \A u \in Tables : Left(u)

C9_Witness ==
    /\ pc = "complete"
    /\ \E i \in 1..(Len(files_and_tables) - 1) :
          LET t == files_and_tables[i]
          IN /\ result[t].status = "critical"
             /\ result[t].attempted = 2
             /\ result[t].ok = {1}
             /\ Len(result[t].errors) = 1
             /\ Len(db[t].rows) >= ChunkSize
             /\ result[files_and_tables[i + 1]].status = "done"

(***************************************************************************)
(* C10 as stated.  No chunk written in append mode creates the table or    *)
(* determines its columns.                                                 *)
(***************************************************************************)
C10_NoAppendCreates ==
    \A t \in Tables : db[t].exists => db[t].creator.method # "append"

(***************************************************************************)
(* C10 amended.  A table is created, dropped or recreated only by a write  *)
(* that finds it absent or by the replace-mode write, which only the       *)
(* first attempted chunk of relationships makes; a write to an existing    *)
(* table in append mode leaves its creating chunk, and so its columns, as  *)
(* they are.  When the first chunk of relationships is written             *)
(* successfully it stays the creator for the rest of the run.              *)
(***************************************************************************)
C10_SchemaFixedAtCreation ==
    /\ [][ \A t \in Tables :
              (db'[t].creator # db[t].creator \/ db'[t].exists # db[t].exists)
                  => /\ pc = "loop"
                     /\ t = Current
                     /\ (~db[t].exists \/ (t = Rel /\ chunk_number = 0)) ]_vars
    /\ [](1 \in result[Rel].ok =>
             /\ db[Rel].exists
             /\ db[Rel].creator = [run |-> run, chunk |-> 1, method |-> "replace"])

C10_Witness ==
    /\ run = 2
    /\ \E t \in Tables :
          /\ db[t].exists
          /\ db[t].creator.run = 1
          /\ result[t].ok = {1, 2}
          /\ \E j \in DOMAIN db[t].rows : db[t].rows[j].run = 2

=============================================================================
